---- MODULE Spec2Model ----
(***************************************************************************)
(* Model of agent-argocd: the authenticated HTTP request helper            *)
(* make_api_request (mcp_argocd/api/client.py) and the single-node agent   *)
(* graph (agent_argocd/graph.py).                                          *)
(*                                                                         *)
(* Python strings are modelled as sequences of one-character strings, so   *)
(* that `in`, str.replace, slicing and f-string formatting are computed    *)
(* as Python computes them.                                                *)
(*                                                                         *)
(* A call is modelled with its method and token arguments and the default  *)
(* timeout.  path, params and data only reach the request URL, the request *)
(* keywords and logger.debug lines, which emit nothing at the level the    *)
(* module configures (INFO); they are left out, as is ARGOCD_VERIFY_SSL.    *)
(* `logs` holds the lines emitted during the call.  A JSON body is held as *)
(* the value response.json() returns; a body that is not JSON as its text. *)
(* agent.py and state.py are not part of the sources at hand: the agent    *)
(* node's translation of messages follows the specification and the test.  *)
(***************************************************************************)
EXTENDS Integers, Sequences, FiniteSets, TLC

\* ---------------------------------------------------------------- bounds
MaxTokenLen == 2
MaxTextLen == 2
MaxMsgs == 2

\* Characters of the strings the environment supplies (tokens, response
\* bodies, exception messages).  "D" occurs in the redaction placeholder
\* "[REDACTED]" and in no other text the helper returns or logs at level
\* INFO or above; "z" occurs in none.  No string over this alphabet is a
\* JSON document.
Alphabet == {"z", "D"}

StrsUpTo(n) == UNION {[1..k -> Alphabet] : k \in 0..n}

\* ------------------------------------------------------ program constants
\* timeout: int = 30
DefaultTimeout == 30
\* response.text[:200]
ErrorTextLimit == 200

\* ------------------------------------------------------- string literals
\* "Token is required. Please set the API_KEY environment variable."
S_TokenRequired ==
  <<"T","o","k","e","n"," ","i","s"," ","r","e","q","u","i","r","e","d",".",
    " ","P","l","e","a","s","e"," ","s","e","t"," ","t","h","e"," ","A","P",
    "I","_","K","E","Y"," ","e","n","v","i","r","o","n","m","e","n","t"," ",
    "v","a","r","i","a","b","l","e",".">>
\* "Bearer "
S_Bearer ==
  <<"B","e","a","r","e","r"," ">>
\* "Unsupported method: "
S_UnsupportedMethod ==
  <<"U","n","s","u","p","p","o","r","t","e","d"," ","m","e","t","h","o","d",
    ":"," ">>
\* "API request failed: "
S_ApiRequestFailed ==
  <<"A","P","I"," ","r","e","q","u","e","s","t"," ","f","a","i","l","e","d",
    ":"," ">>
\* " - "
S_Sep ==
  <<" ","-"," ">>
\* "Request timed out after "
S_TimedOutAfter ==
  <<"R","e","q","u","e","s","t"," ","t","i","m","e","d"," ","o","u","t"," ",
    "a","f","t","e","r"," ">>
\* " seconds"
S_Seconds ==
  <<" ","s","e","c","o","n","d","s">>
\* "HTTP error: "
S_HttpError ==
  <<"H","T","T","P"," ","e","r","r","o","r",":"," ">>
\* "[REDACTED]"
S_Redacted ==
  <<"[","R","E","D","A","C","T","E","D","]">>
\* "Request error: "
S_RequestError ==
  <<"R","e","q","u","e","s","t"," ","e","r","r","o","r",":"," ">>
\* "Unexpected error: "
S_UnexpectedError ==
  <<"U","n","e","x","p","e","c","t","e","d"," ","e","r","r","o","r",":"," ">>
\* "No token available - neither provided nor found in environment"
L_NoToken ==
  <<"N","o"," ","t","o","k","e","n"," ","a","v","a","i","l","a","b","l","e",
    " ","-"," ","n","e","i","t","h","e","r"," ","p","r","o","v","i","d","e",
    "d"," ","n","o","r"," ","f","o","u","n","d"," ","i","n"," ","e","n","v",
    "i","r","o","n","m","e","n","t">>
\* "Unsupported HTTP method: "
L_UnsupportedHttpMethod ==
  <<"U","n","s","u","p","p","o","r","t","e","d"," ","H","T","T","P"," ","m",
    "e","t","h","o","d",":"," ">>
\* "Request successful but could not parse JSON response"
L_CouldNotParse ==
  <<"R","e","q","u","e","s","t"," ","s","u","c","c","e","s","s","f","u","l",
    " ","b","u","t"," ","c","o","u","l","d"," ","n","o","t"," ","p","a","r",
    "s","e"," ","J","S","O","N"," ","r","e","s","p","o","n","s","e">>
\* "Error details: "
L_ErrorDetails ==
  <<"E","r","r","o","r"," ","d","e","t","a","i","l","s",":"," ">>
\* "Error response (not JSON): "
L_ErrorResponseNotJson ==
  <<"E","r","r","o","r"," ","r","e","s","p","o","n","s","e"," ","(","n","o",
    "t"," ","J","S","O","N",")",":"," ">>
\* "error"
K_error ==
  <<"e","r","r","o","r">>
\* "message"
K_message ==
  <<"m","e","s","s","a","g","e">>
\* "argument of type 'int' is not iterable"
T_IntNotIterable ==
  <<"a","r","g","u","m","e","n","t"," ","o","f"," ","t","y","p","e"," ","'",
    "i","n","t","'"," ","i","s"," ","n","o","t"," ","i","t","e","r","a","b",
    "l","e">>
\* "argument of type 'NoneType' is not iterable"
T_NoneNotIterable ==
  <<"a","r","g","u","m","e","n","t"," ","o","f"," ","t","y","p","e"," ","'",
    "N","o","n","e","T","y","p","e","'"," ","i","s"," ","n","o","t"," ","i",
    "t","e","r","a","b","l","e">>
\* "string indices must be integers, not 'str'"
T_StrIndices ==
  <<"s","t","r","i","n","g"," ","i","n","d","i","c","e","s"," ","m","u","s",
    "t"," ","b","e"," ","i","n","t","e","g","e","r","s",","," ","n","o","t",
    " ","'","s","t","r","'">>
\* "list indices must be integers or slices, not str"
T_ListIndices ==
  <<"l","i","s","t"," ","i","n","d","i","c","e","s"," ","m","u","s","t"," ",
    "b","e"," ","i","n","t","e","g","e","r","s"," ","o","r"," ","s","l","i",
    "c","e","s",","," ","n","o","t"," ","s","t","r">>
\* "No token provided, using default token"
D_NoTokenProvided ==
  <<"N","o"," ","t","o","k","e","n"," ","p","r","o","v","i","d","e","d",",",
    " ","u","s","i","n","g"," ","d","e","f","a","u","l","t"," ","t","o","k",
    "e","n">>
\* "Request headers prepared (Authorization header masked)"
D_HeadersPrepared ==
  <<"R","e","q","u","e","s","t"," ","h","e","a","d","e","r","s"," ","p","r",
    "e","p","a","r","e","d"," ","(","A","u","t","h","o","r","i","z","a","t",
    "i","o","n"," ","h","e","a","d","e","r"," ","m","a","s","k","e","d",")">>
\* "Executing "
D_Executing ==
  <<"E","x","e","c","u","t","i","n","g"," ">>
\* " request"
D_Request ==
  <<" ","r","e","q","u","e","s","t">>
\* "Response status code: "
D_ResponseStatus ==
  <<"R","e","s","p","o","n","s","e"," ","s","t","a","t","u","s"," ","c","o",
    "d","e",":"," ">>
\* "Request successful (204 No Content)"
D_Success204 ==
  <<"R","e","q","u","e","s","t"," ","s","u","c","c","e","s","s","f","u","l",
    " ","(","2","0","4"," ","N","o"," ","C","o","n","t","e","n","t",")">>
\* "Request successful, parsed JSON response"
D_SuccessParsed ==
  <<"R","e","q","u","e","s","t"," ","s","u","c","c","e","s","s","f","u","l",
    ","," ","p","a","r","s","e","d"," ","J","S","O","N"," ","r","e","s","p",
    "o","n","s","e">>

\* the HTTP methods
\* "GET"
M_GET ==
  <<"G","E","T">>
\* "POST"
M_POST ==
  <<"P","O","S","T">>
\* "PUT"
M_PUT ==
  <<"P","U","T">>
\* "PATCH"
M_PATCH ==
  <<"P","A","T","C","H">>
\* "DELETE"
M_DELETE ==
  <<"D","E","L","E","T","E">>
\* "OPTIONS"
M_OPTIONS ==
  <<"O","P","T","I","O","N","S">>
\* "get"
M_get ==
  <<"g","e","t">>

\* ------------------------------------------------- Python string semantics
Min(a, b) == IF a < b THEN a ELSE b

\* sub in s
Contains(s, sub) ==
  \E i \in 1..(Len(s) - Len(sub) + 1) : SubSeq(s, i, i + Len(sub) - 1) = sub

\* s.replace(old, new) for a non-empty old: leftmost, non-overlapping
RECURSIVE Replace(_, _, _)
Replace(s, old, new) ==
  IF Len(s) < Len(old) THEN s
  ELSE IF SubSeq(s, 1, Len(old)) = old
       THEN new \o Replace(SubSeq(s, Len(old) + 1, Len(s)), old, new)
       ELSE <<Head(s)>> \o Replace(Tail(s), old, new)

\* s[:n]
Slice(s, n) == SubSeq(s, 1, Min(n, Len(s)))

DigitChar == <<"0", "1", "2", "3", "4", "5", "6", "7", "8", "9">>

\* f"{n}" of a non-negative int
RECURSIVE IntStr(_)
IntStr(n) ==
  IF n < 10 THEN <<DigitChar[n + 1]>>
  ELSE IntStr(n \div 10) \o <<DigitChar[(n % 10) + 1]>>

\* repr() of a str without quote characters
ReprStr(s) == <<"'">> \o s \o <<"'">>

\* Optional[str]
None == [isNone |-> TRUE, str |-> <<>>]
Some(s) == [isNone |-> FALSE, str |-> s]
\* `not token`: None and "" are both falsy
Not(t) == t.isNone \/ t.str = <<>>

\* ------------------------------------------------------------ JSON values
\* A response body is text that is not JSON (kind "text") or a JSON
\* document: an object with optional string members "error" and "message"
\* (each a sequence of zero or one strings, "error" listed first), a
\* string, an array of strings, a number or null.
JsonNone ==
  [kind |-> "none", text |-> <<>>, error |-> <<>>, message |-> <<>>,
   elems |-> <<>>]
JText(t) == [JsonNone EXCEPT !.kind = "text", !.text = t]
JObject(e, m) == [JsonNone EXCEPT !.kind = "object", !.error = e, !.message = m]
JString(s) == [JsonNone EXCEPT !.kind = "string", !.text = s]
JArray(xs) == [JsonNone EXCEPT !.kind = "array", !.elems = xs]
JNumber == [JsonNone EXCEPT !.kind = "number"]
JNull == [JsonNone EXCEPT !.kind = "null"]

\* response.json() raises ValueError exactly on a body that is not JSON
JsonRaises(body) == body.kind = "text"

\* `key in v` raises TypeError on a number and on None
InRaises(v) == v.kind \in {"number", "null"}
InRaisesMsg(v) == IF v.kind = "number" THEN T_IntNotIterable ELSE T_NoneNotIterable
\* `key in v`: dict membership, substring of a str, element of a list
In(key, v) ==
  CASE v.kind = "object" ->
         IF key = K_error THEN v.error # <<>>
         ELSE IF key = K_message THEN v.message # <<>>
         ELSE FALSE
    [] v.kind = "string" -> Contains(v.text, key)
    [] v.kind = "array" -> \E i \in DOMAIN v.elems : v.elems[i] = key
    [] OTHER -> FALSE
\* v[key] with a str key raises TypeError on a str and on a list
GetItemRaises(v) == v.kind # "object"
GetItemRaisesMsg(v) == IF v.kind = "string" THEN T_StrIndices ELSE T_ListIndices
GetItem(v, key) == IF key = K_error THEN v.error[1] ELSE v.message[1]

RECURSIVE JoinRepr(_)
JoinRepr(xs) ==
  IF xs = <<>> THEN <<>>
  ELSE ReprStr(Head(xs))
       \o (IF Tail(xs) = <<>> THEN <<>> ELSE <<",", " ">>)
       \o JoinRepr(Tail(xs))

\* f"{error_data}"
PyStr(v) ==
  CASE v.kind = "object" ->
         <<"{">>
         \o (IF v.error # <<>>
             THEN ReprStr(K_error) \o <<":", " ">> \o ReprStr(v.error[1])
             ELSE <<>>)
         \o (IF v.error # <<>> /\ v.message # <<>> THEN <<",", " ">> ELSE <<>>)
         \o (IF v.message # <<>>
             THEN ReprStr(K_message) \o <<":", " ">> \o ReprStr(v.message[1])
             ELSE <<>>)
         \o <<"}">>
    [] v.kind = "string" -> v.text
    [] v.kind = "array" -> <<"[">> \o JoinRepr(v.elems) \o <<"]">>
    [] OTHER -> <<>>

\* ------------------------------------------------------------- exceptions
\* An exception: the classes it is an instance of, str(e), and
\* e.response.status_code for an HTTPStatusError.
Exc(mro, msg, code) == [mro |-> mro, msg |-> msg, status_code |-> code]
NoExc == Exc({}, <<>>, 0)
TypeError(msg) == Exc({"TypeError", "Exception"}, msg, 0)

\* ---------------------------------------------------------------- logging
LevelNo == [DEBUG |-> 10, INFO |-> 20, WARNING |-> 30, ERROR |-> 40]
\* logging.basicConfig(level=logging.INFO)
LogLevel == "INFO"
\* logger.<level>(msg): the lines emitted
Emit(level, msg) ==
  IF LevelNo[level] >= LevelNo[LogLevel]
  THEN <<[level |-> level, msg |-> msg]>>
  ELSE <<>>

\* ------------------------------------------------------------ result pairs
\* The payload of a returned pair: the parsed JSON (form "json"), or a dict
\* built by the helper (form "dict") with the keys in `keys`.
Payload(form, keys, raw, err, value) ==
  [form |-> form, keys |-> keys,
   status |-> IF "status" \in keys THEN "success" ELSE "",
   raw_response |-> raw, error |-> err, value |-> value]
Result(ok, payload) == [ok |-> ok, payload |-> payload]
\* (False, {"error": msg})
Failure(msg) == Result(FALSE, Payload("dict", {"error"}, <<>>, msg, JsonNone))

\* ------------------------------------------------------------------ state
VARIABLES
  pc,            \* "import", "aborted", "idle", "awaiting", "returned", "raised"
  API_URL,       \* module global, Optional[str]
  ARGOCD_TOKEN,  \* module global, Optional[str]
  method,        \* argument of the call
  token_arg,     \* argument of the call, Optional[str]
  token,         \* the local `token` after resolution, Optional[str]
  headers,       \* headers["Authorization"], "" before it is built
  client,        \* the call's httpx.AsyncClient: "none", "open", "closed"
  opened,        \* clients constructed by the call
  requests,      \* requests put on the network, in order
  response,      \* the response received (zero or one)
  raised,        \* the exception raised inside the try block (zero or one)
  result,        \* the pair returned (zero or one)
  logs,          \* log lines emitted during the call, in order
  node,          \* graph: the place of the run, "START", "agent_argocd", "END"
  runs,          \* graph: executions of the agent node
  input,         \* graph: state.input.messages
  loop_result,   \* graph: the messages the tool-calling agent loop returned
  output         \* graph: state.output.messages (zero or one list)

httpVars ==
  <<pc, API_URL, ARGOCD_TOKEN, method, token_arg, token, headers, client,
    opened, requests, response, raised, result, logs>>
graphVars == <<node, runs, input, loop_result, output>>
vars == <<httpVars, graphVars>>

\* ----------------------------------------------------------------- inputs
Tokens == StrsUpTo(MaxTokenLen) \ {<<>>}
EnvValues == {None, Some(<<>>)} \cup {Some(t) : t \in Tokens}
TokenArgs == {None, Some(<<>>)} \cup {Some(t) : t \in Tokens}
\* One supported method without a body, one with, and two unsupported
Methods == {M_GET, M_POST, M_OPTIONS, M_get}
Statuses == {200, 201, 202, 203, 204, 401, 500}
Texts == StrsUpTo(MaxTextLen)
OptField == {<<>>, <<<<>>>>} \cup {<<<<c>>>> : c \in Alphabet}
Bodies ==
  {JText(t) : t \in Texts}
    \cup {JObject(e, m) : e \in OptField, m \in OptField}
    \cup {JString(s) : s \in {<<"z">>, K_error, K_message}}
    \cup {JArray(<<>>), JArray(<<K_error>>), JNumber, JNull}
\* What awaiting the request can raise: a timeout, another transport
\* error, an HTTPStatusError, any other Exception.
TransportExceptions ==
  {Exc(mro, m, 0) :
     mro \in {{"TimeoutException", "RequestError", "Exception"},
              {"RequestError", "Exception"},
              {"Exception"}},
     m \in Texts}
    \cup {Exc({"HTTPStatusError", "Exception"}, m, 401) : m \in Texts}

\* ------------------------------------------------------ make_api_request
\* The default token taking precedence over the argument
ResolveToken_PreferDefault(arg) == IF Not(ARGOCD_TOKEN) THEN arg ELSE ARGOCD_TOKEN

\* if not token: token = ARGOCD_TOKEN
ResolveToken(arg) == IF Not(arg) THEN ARGOCD_TOKEN ELSE arg

\* A lookup that ignores the case of the method
method_map_AnyCase == {M_GET, M_POST, M_PUT, M_PATCH, M_DELETE, M_get}

\* the keys of method_map
method_map == {M_GET, M_POST, M_PUT, M_PATCH, M_DELETE}

\* request_kwargs["json"] is set
SendsJson(m) == m \in {M_POST, M_PUT, M_PATCH}

\* A client closed by hand before each return, and not in the handlers
AsyncClientExit_ReturnOnly(c, how) == IF how = "return" THEN "closed" ELSE c

\* `async with httpx.AsyncClient(...) as client`: leaving the block closes
\* the client, whether by return ("return") or by exception ("raise")
AsyncClientExit(c, how) == "closed"

Return(ok, payload, lines) ==
  [kind |-> "return", result |-> Result(ok, payload), lines |-> lines,
   exc |-> NoExc]
Throw(e, lines) ==
  [kind |-> "raise", result |-> Failure(<<>>), lines |-> lines, exc |-> e]

\* The success branch without the except ValueError fallback
HandleSuccess_NoFallback(r) ==
  IF r.status_code = 204
  THEN Return(TRUE, Payload("dict", {"status"}, <<>>, <<>>, JsonNone),
              Emit("DEBUG", D_Success204))
  ELSE IF JsonRaises(r.body)
       THEN Throw(Exc({"ValueError", "Exception"}, <<>>, 0), <<>>)
       ELSE Return(TRUE, Payload("json", {}, <<>>, <<>>, r.body),
                   Emit("DEBUG", D_SuccessParsed))

\* The success branch without the 204 special case
HandleSuccess_Parse204(r) ==
  IF JsonRaises(r.body)
  THEN Return(TRUE,
              Payload("dict", {"status", "raw_response"}, r.body.text,
                      <<>>, JsonNone),
              Emit("WARNING", L_CouldNotParse))
  ELSE Return(TRUE, Payload("json", {}, <<>>, <<>>, r.body),
              Emit("DEBUG", D_SuccessParsed))

\* The success branch: status 200, 201, 202, 204
HandleSuccess(r) ==
  IF r.status_code = 204
  THEN Return(TRUE, Payload("dict", {"status"}, <<>>, <<>>, JsonNone),
              Emit("DEBUG", D_Success204))
  ELSE IF JsonRaises(r.body)
       THEN Return(TRUE,
                   Payload("dict", {"status", "raw_response"}, r.body.text,
                           <<>>, JsonNone),
                   Emit("WARNING", L_CouldNotParse))
       ELSE Return(TRUE, Payload("json", {}, <<>>, <<>>, r.body),
                   Emit("DEBUG", D_SuccessParsed))

\* (False, {"error": error_message, "details": error_data})
FailureDetails(msg, data, lines) ==
  Return(FALSE, Payload("dict", {"error", "details"}, <<>>, msg, data),
         lines \o Emit("ERROR", L_ErrorDetails \o PyStr(data)))

\* The two tests in the opposite order
EnrichKey_MessageFirst(error_data) ==
  IF In(K_message, error_data) THEN <<K_message>>
  ELSE IF In(K_error, error_data) THEN <<K_error>>
  ELSE <<>>

\* if "error" in error_data ... elif "message" in error_data: the member
\* that enriches the message, <<>> when neither is present
EnrichKey(error_data) ==
  IF In(K_error, error_data) THEN <<K_error>>
  ELSE IF In(K_message, error_data) THEN <<K_message>>
  ELSE <<>>

\* The else branch: any other status
HandleError(r) ==
  LET error_message == S_ApiRequestFailed \o IntStr(r.status_code)
      l1 == Emit("ERROR", error_message)
      error_data == r.body
  IN IF JsonRaises(r.body)
     THEN LET error_text ==
                IF r.body.text # <<>> THEN Slice(r.body.text, ErrorTextLimit)
                ELSE <<>>
          IN Return(FALSE,
                    Payload("dict", {"error"}, <<>>,
                            error_message \o S_Sep \o error_text, JsonNone),
                    l1 \o Emit("ERROR", L_ErrorResponseNotJson \o error_text))
     ELSE IF InRaises(error_data)
     THEN Throw(TypeError(InRaisesMsg(error_data)), l1)
     ELSE LET key == EnrichKey(error_data)
          IN IF key = <<>>
             THEN FailureDetails(error_message, error_data, l1)
             ELSE IF GetItemRaises(error_data)
             THEN Throw(TypeError(GetItemRaisesMsg(error_data)), l1)
             ELSE FailureDetails(
                    error_message \o S_Sep \o GetItem(error_data, key[1]),
                    error_data, l1)

\* Lines 110-138: what the helper does with a response
HandleResponse(r) ==
  LET h == IF r.status_code \in {200, 201, 202, 204}
           THEN HandleSuccess(r) ELSE HandleError(r)
  IN [h EXCEPT !.lines =
        Emit("DEBUG", D_ResponseStatus \o IntStr(r.status_code)) \o h.lines]

\* if token and token in error_message: error_message.replace(token, ...)
Redact(error_message, tok) ==
  IF ~Not(tok) /\ Contains(error_message, tok.str)
  THEN Replace(error_message, tok.str, S_Redacted)
  ELSE error_message

\* The handlers without the final `except Exception`
ExceptClauses_NoCatchAll == <<"TimeoutException", "HTTPStatusError", "RequestError">>

\* The except clauses, in source order; "" when none matches
ExceptClauses == <<"TimeoutException", "HTTPStatusError", "RequestError", "Exception">>
Clause(e) ==
  IF \E i \in DOMAIN ExceptClauses : ExceptClauses[i] \in e.mro
  THEN ExceptClauses[CHOOSE i \in DOMAIN ExceptClauses :
                       /\ ExceptClauses[i] \in e.mro
                       /\ \A j \in 1..(i - 1) : ExceptClauses[j] \notin e.mro]
  ELSE ""

\* Lines 139-157: the message each clause logs and returns
CatchMessage(e, tok, timeout) ==
  CASE Clause(e) = "TimeoutException" ->
         S_TimedOutAfter \o IntStr(timeout) \o S_Seconds
    [] Clause(e) = "HTTPStatusError" ->
         S_HttpError \o IntStr(e.status_code) \o S_Sep \o e.msg
    [] Clause(e) = "RequestError" -> S_RequestError \o Redact(e.msg, tok)
    [] Clause(e) = "Exception" -> S_UnexpectedError \o Redact(e.msg, tok)
    [] OTHER -> <<>>

\* Leaving the try block by exception e, `lines` logged before it
Unwind(e, lines) ==
  /\ raised' = <<e>>
  /\ client' = IF client = "open" THEN AsyncClientExit(client, "raise") ELSE client
  /\ IF Clause(e) # ""
     THEN LET msg == CatchMessage(e, token, DefaultTimeout)
          IN /\ pc' = "returned"
             /\ result' = <<Failure(msg)>>
             /\ logs' = logs \o lines \o Emit("ERROR", msg)
     ELSE /\ pc' = "raised"
          /\ result' = <<>>
          /\ logs' = logs \o lines

\* Module import, lines 12-19: read the environment, abort when a
\* required variable is missing
Import(url, tok) ==
  /\ pc = "import"
  /\ API_URL' = url
  /\ ARGOCD_TOKEN' = tok
  /\ pc' = IF Not(url) \/ Not(tok) THEN "aborted" ELSE "idle"
  /\ UNCHANGED <<method, token_arg, token, headers, client, opened, requests,
                 response, raised, result, logs>>
  /\ UNCHANGED graphVars

\* make_api_request up to the await of the request (lines 56-106)
Call(m, arg) ==
  /\ pc = "idle"
  /\ method' = m
  /\ token_arg' = arg
  /\ token' = ResolveToken(arg)
  /\ LET l0 == IF Not(arg) THEN Emit("DEBUG", D_NoTokenProvided) ELSE <<>>
     IN IF Not(token')
        THEN /\ logs' = logs \o l0 \o Emit("ERROR", L_NoToken)
             /\ result' = <<Failure(S_TokenRequired)>>
             /\ pc' = "returned"
             /\ UNCHANGED <<headers, client, opened, requests>>
        ELSE /\ headers' = S_Bearer \o token'.str
             /\ opened' = opened + 1
             /\ IF m \notin method_map
                THEN /\ logs' = logs \o l0 \o Emit("DEBUG", D_HeadersPrepared)
                                  \o Emit("ERROR", L_UnsupportedHttpMethod \o m)
                     /\ result' = <<Failure(S_UnsupportedMethod \o m)>>
                     /\ client' = AsyncClientExit("open", "return")
                     /\ pc' = "returned"
                     /\ UNCHANGED requests
                ELSE /\ logs' = logs \o l0 \o Emit("DEBUG", D_HeadersPrepared)
                                  \o Emit("DEBUG", D_Executing \o m \o D_Request)
                     /\ requests' = Append(requests,
                                      [method |-> m, Authorization |-> headers',
                                       json |-> SendsJson(m)])
                     /\ client' = "open"
                     /\ result' = <<>>
                     /\ pc' = "awaiting"
  /\ UNCHANGED <<API_URL, ARGOCD_TOKEN, response, raised>>
  /\ UNCHANGED graphVars

\* The request completes with a response (lines 106-138)
Respond(status, body) ==
  /\ pc = "awaiting"
  /\ LET r == [status_code |-> status, body |-> body]
         h == HandleResponse(r)
     IN /\ response' = <<r>>
        /\ IF h.kind = "return"
           THEN /\ result' = <<h.result>>
                /\ logs' = logs \o h.lines
                /\ client' = AsyncClientExit(client, "return")
                /\ pc' = "returned"
                /\ UNCHANGED raised
           ELSE Unwind(h.exc, h.lines)
  /\ UNCHANGED <<API_URL, ARGOCD_TOKEN, method, token_arg, token, headers,
                 opened, requests>>
  /\ UNCHANGED graphVars

\* The request raises (lines 106, 139-157)
Raise(e) ==
  /\ pc = "awaiting"
  /\ Unwind(e, <<>>)
  /\ UNCHANGED <<API_URL, ARGOCD_TOKEN, method, token_arg, token, headers,
                 opened, requests, response>>
  /\ UNCHANGED graphVars

InitHttp ==
  /\ pc = "import"
  /\ API_URL = None
  /\ ARGOCD_TOKEN = None
  /\ method = <<>>
  /\ token_arg = None
  /\ token = None
  /\ headers = <<>>
  /\ client = "none"
  /\ opened = 0
  /\ requests = <<>>
  /\ response = <<>>
  /\ raised = <<>>
  /\ result = <<>>
  /\ logs = <<>>

Init ==
  /\ InitHttp
  /\ node = "START"
  /\ runs = 0
  /\ input = <<>>
  /\ loop_result = <<>>
  /\ output = <<>>

Next ==
  \/ \E url \in {None, Some(<<>>), Some(<<"z">>)}, tok \in EnvValues : Import(url, tok)
  \/ \E m \in Methods, arg \in TokenArgs : Call(m, arg)
  \/ \E status \in Statuses, body \in Bodies : Respond(status, body)
  \/ \E e \in TransportExceptions : Raise(e)

Spec == Init /\ [][Next]_vars

\* ------------------------------------------------------------ agent graph
\* graph_builder.add_node("agent_argocd", agent_argocd)
Nodes == {"agent_argocd"}

\* A retry edge from the agent node back to itself
Edges_Retry ==
  {<<"START", "agent_argocd">>, <<"agent_argocd", "agent_argocd">>,
   <<"agent_argocd", "END">>}

\* add_edge(START, "agent_argocd"); add_edge("agent_argocd", END)
Edges == {<<"START", "agent_argocd">>, <<"agent_argocd", "END">>}

Message(type, content) == [type |-> type, content |-> content]
Contents == {"sync app test-app", "Sync completed successfully"}
\* state.input.messages of an invocation: one human message
Inputs == {<<Message("human", c)>> : c \in Contents}
\* What the tool-calling agent loop can return under "messages"
LoopMessages == {Message(ty, c) : ty \in {"assistant", "human", "tool"}, c \in Contents}
LoopResults == UNION {[1..k -> LoopMessages] : k \in 0..MaxMsgs}

\* agent.py: each returned message becomes an assistant message of the
\* output state, in order
TranslateMessages(msgs) ==
  [i \in 1..Len(msgs) |-> Message("assistant", msgs[i].content)]

\* The graph follows an edge into a node and runs it; the agent loop
\* returns `ret`
RunAgent(n, ret) ==
  /\ n \in Nodes
  /\ <<node, n>> \in Edges
  /\ node' = n
  /\ runs' = runs + 1
  /\ loop_result' = ret
  /\ output' = <<TranslateMessages(ret)>>
  /\ UNCHANGED input
  /\ UNCHANGED httpVars

\* The agent loop raises: the invocation ends with the error, no output
AgentRaises(n) ==
  /\ n \in Nodes
  /\ <<node, n>> \in Edges
  /\ node' = "raised"
  /\ runs' = runs + 1
  /\ UNCHANGED <<input, loop_result, output>>
  /\ UNCHANGED httpVars

\* The graph follows the edge to END
Finish ==
  /\ <<node, "END">> \in Edges
  /\ node' = "END"
  /\ UNCHANGED <<runs, input, loop_result, output>>
  /\ UNCHANGED httpVars

InitGraph ==
  /\ InitHttp
  /\ node = "START"
  /\ runs = 0
  /\ input \in Inputs
  /\ loop_result = <<>>
  /\ output = <<>>

NextGraph ==
  \/ \E n \in Nodes, ret \in LoopResults : RunAgent(n, ret)
  \/ \E n \in Nodes : AgentRaises(n)
  \/ Finish

SpecGraph == InitGraph /\ [][NextGraph]_vars

\* ================================================================ claims
EndsWith(s, suffix) ==
  /\ Len(s) >= Len(suffix)
  /\ SubSeq(s, Len(s) - Len(suffix) + 1, Len(s)) = suffix

InCall == pc \in {"awaiting", "returned", "raised"}

\* C1: every request sent carries "Bearer " followed by the explicit token
\* argument when that is non-empty, and by ARGOCD_TOKEN otherwise; a call
\* with neither returns the token-required failure, having opened no client
\* and sent no request.
C1_TokenResolution ==
  /\ \A i \in DOMAIN requests :
       requests[i].Authorization =
         S_Bearer \o (IF token_arg.isNone \/ token_arg.str = <<>>
                      THEN ARGOCD_TOKEN.str ELSE token_arg.str)
  /\ (InCall /\ Not(token_arg) /\ Not(ARGOCD_TOKEN))
       => /\ pc = "returned"
          /\ result = <<Failure(S_TokenRequired)>>
          /\ opened = 0 /\ client = "none" /\ requests = <<>>

\* A request sent with an explicit token that differs from the default
C1_Witness ==
  /\ pc = "awaiting"
  /\ ~Not(token_arg) /\ ~Not(ARGOCD_TOKEN) /\ token_arg # ARGOCD_TOKEN
  /\ Len(requests) = 1
  /\ requests[1].Authorization = S_Bearer \o token_arg.str

\* C2: a call whose method is not one of GET, POST, PUT, PATCH, DELETE
\* returns the failure "Unsupported method: <method>" and sends no request.
C2_UnsupportedMethod ==
  (InCall /\ method \notin {M_GET, M_POST, M_PUT, M_PATCH, M_DELETE})
    => /\ pc = "returned"
       /\ result = <<Failure(S_UnsupportedMethod \o method)>>
       /\ requests = <<>>

\* A call with the lower-case method "get" has returned
C2_Witness ==
  /\ pc = "returned"
  /\ method = M_get
  /\ result = <<Failure(S_UnsupportedMethod \o M_get)>>
  /\ client = "closed"

\* C3: for a non-2xx response whose body is a JSON object, the call fails
\* and its message ends with " - X" where X is the member "error" when
\* present, and the member "message" only when "error" is absent.
C3_ErrorFieldInMessage ==
  (pc = "returned" /\ response # <<>>
     /\ response[1].status_code \notin 200..299
     /\ response[1].body.kind = "object")
    => LET b == response[1].body
           msg == result[1].payload.error
       IN /\ ~result[1].ok
          /\ b.error # <<>>
               => /\ EndsWith(msg, S_Sep \o b.error[1])
                  /\ Contains(msg, b.error[1])
          /\ (b.error = <<>> /\ b.message # <<>>)
               => EndsWith(msg, S_Sep \o b.message[1])

\* A 401 whose body holds both members, with different values
C3_Witness ==
  /\ pc = "returned" /\ response # <<>>
  /\ response[1].status_code = 401
  /\ response[1].body.kind = "object"
  /\ response[1].body.error = << <<"z">> >>
  /\ response[1].body.message = << <<"D">> >>
  /\ ~result[1].ok

\* C4: a 200, 201 or 202 response always returns success: with the body
\* text under "raw_response" beside the success marker when the body is
\* not JSON, and with exactly the parsed JSON otherwise.
C4_SuccessBody ==
  (response # <<>> /\ response[1].status_code \in {200, 201, 202})
    => LET b == response[1].body
       IN /\ pc = "returned" /\ raised = <<>>
          /\ result[1].ok
          /\ IF b.kind = "text"
             THEN result[1].payload =
                    [form |-> "dict", keys |-> {"status", "raw_response"},
                     status |-> "success", raw_response |-> b.text,
                     error |-> <<>>, value |-> JsonNone]
             ELSE /\ result[1].payload.form = "json"
                  /\ result[1].payload.value = b

\* A 201 with a non-JSON body
C4_Witness ==
  /\ pc = "returned" /\ response # <<>>
  /\ response[1].status_code = 201
  /\ response[1].body = JText(<<"z", "D">>)
  /\ result[1].ok
  /\ result[1].payload.raw_response = <<"z", "D">>

\* C5: a 204 response returns exactly (True, {"status": "success"}),
\* whatever its body.
C5_NoContent ==
  (response # <<>> /\ response[1].status_code = 204)
    => /\ pc = "returned"
       /\ result =
            <<[ok |-> TRUE,
               payload |-> [form |-> "dict", keys |-> {"status"},
                            status |-> "success", raw_response |-> <<>>,
                            error |-> <<>>, value |-> JsonNone]]>>

\* A 204 that carries a non-JSON body
C5_Witness ==
  /\ pc = "returned" /\ response # <<>>
  /\ response[1].status_code = 204
  /\ response[1].body = JText(<<"z">>)
  /\ result[1].ok

C7_NoTokenInLogs ==
  (InCall /\ ~Not(token))
    => \A i \in DOMAIN logs : ~Contains(logs[i].msg, token.str)

\* C8: a call never raises; it returns (True, payload) only for status
\* 200, 201, 202 or 204, and otherwise (False, payload) whose "error" is a
\* non-empty string.
C8_NeverRaises ==
  /\ pc # "raised"
  /\ pc = "returned"
       => /\ Len(result) = 1
          /\ result[1].ok
               => /\ response # <<>>
                  /\ response[1].status_code \in {200, 201, 202, 204}
                  /\ raised = <<>>
          /\ ~result[1].ok
               => /\ "error" \in result[1].payload.keys
                  /\ result[1].payload.error # <<>>

\* A non-2xx response whose JSON body is not an object made the handler
\* raise TypeError, and the call returned a failure
C8_Witness ==
  /\ pc = "returned"
  /\ response # <<>> /\ response[1].body.kind \in {"number", "null", "string", "array"}
  /\ raised # <<>> /\ "TypeError" \in raised[1].mro
  /\ ~result[1].ok

\* C9: a call opens at most one client, a client is open only while the
\* call awaits its request, and a call that opened one has closed it when
\* it ends, on every exit path.
C9_ClientClosed ==
  /\ opened <= 1
  /\ client = "open" => pc = "awaiting"
  /\ (pc \in {"returned", "raised"} /\ opened = 1) => client = "closed"
  /\ opened = 0 => client = "none"

\* A call that ended in an except clause, with its client closed
C9_Witness ==
  /\ pc = "returned"
  /\ raised # <<>>
  /\ opened = 1
  /\ client = "closed"

\* C10: an invocation runs the agent node exactly once, and its output
\* holds one assistant message per message the agent loop returned, in
\* order and with the returned content; a loop result of the one message
\* "Sync completed successfully" for one human message gives exactly one
\* assistant message with that content.
C10_AgentRunsOnce ==
  /\ runs <= 1
  /\ node \in {"agent_argocd", "END"}
       => /\ runs = 1
          /\ Len(output) = 1
          /\ Len(output[1]) = Len(loop_result)
          /\ \A i \in DOMAIN loop_result :
               /\ output[1][i].type = "assistant"
               /\ output[1][i].content = loop_result[i].content
  /\ (node = "END" /\ Len(input) = 1 /\ input[1].type = "human"
        /\ loop_result = <<[type |-> "assistant",
                            content |-> "Sync completed successfully"]>>)
       => output = << <<[type |-> "assistant",
                         content |-> "Sync completed successfully"]>> >>

\* The run of the repository's test has reached END
C10_Witness ==
  /\ node = "END"
  /\ input = <<[type |-> "human", content |-> "sync app test-app"]>>
  /\ loop_result = <<[type |-> "assistant",
                      content |-> "Sync completed successfully"]>>
  /\ Len(output[1]) = 1

====
